---- MODULE Spec2Model ----
(***************************************************************************)
(* A model of androguard/decompiler/dad/decompile.py: the per-method       *)
(* orchestrator DvMethod, the class wrapper DvClass, the container         *)
(* wrapper DvMachine and the field literal decoding.                       *)
(*                                                                         *)
(* Text is a sequence of one-character strings, so that slicing,           *)
(* replacing and joining are computed the way the Python code computes     *)
(* them.  An optional value is <<>> (None) or <<v>>.                       *)
(***************************************************************************)
EXTENDS Integers, Sequences, FiniteSets, TLC

VARIABLES
    method,     \* the DvMethod under decompilation
    frame,      \* the call of DvMethod.process in progress: position and locals
    calls,      \* the collaborator calls that call of process has made
    fld,        \* a field of a class
    fres,       \* what get_field_ast, get_source and get_source_ext made of it
    cls,        \* a DvClass
    loop,       \* the call of DvClass.process in progress: its index
    attempts,   \* the indices that call has given to process_method
    out,        \* the text the last DvClass.get_source returned
    ext,        \* the entries the last DvClass.get_source_ext returned
    machine,    \* a DvMachine: its dict `classes`, in insertion order
    mop         \* the DvMachine operation in progress or last ended

methodVars == <<method, frame, calls>>

fieldVars == <<fld, fres>>

classVars == <<cls, loop, attempts, out, ext>>

machineVars == <<machine, mop>>

vars == <<method, frame, calls, fld, fres, cls, loop, attempts, out, ext, machine, mop>>

\* The value of the variables a specification does not use.
Off == <<>>

None == <<>>

Some(v) == <<v>>

IsNone(o) == o = <<>>

Get(o) == o[1]

(***************************************************************************)
(* Bounds of the model.                                                    *)
(***************************************************************************)
MaxRegs == 3

MaxParams == 2

(***************************************************************************)
(* DvMethod.__init__                                                       *)
(***************************************************************************)

\* util.get_type_size: a long or a double takes two registers.
get_type_size(ptype) == IF ptype \in {<<"J">>, <<"D">>} THEN 2 ELSE 1

\* var_to_name[k] = v on a map kept as a set of <<key, value>> pairs.
PutVar(map, k, v) == {p \in map : p[1] # k} \cup {<<k, v>>}

HasVar(map, k) == \E p \in map : p[1] = k

VarOf(map, k) == (CHOOSE p \in map : p[1] = k)[2]

\* A key of var_to_name / def_uses: a register number or a generated name.
RegKey(n) == [tmp |-> FALSE, reg |-> n, name |-> <<>>]

TmpKey(s) == [tmp |-> TRUE, reg |-> 0, name |-> s]

ThisParam(reg, cls_name) == [tag |-> "ThisParam", reg |-> reg, type |-> cls_name]

Param(reg, ptype) == [tag |-> "Param", reg |-> reg, type |-> ptype]

\* start = code.registers_size - code.ins_size
FrameStart(code) == code.registers_size - code.ins_size

\* A constructor that forgets to step over the register of `this`.
FirstParamReg_noThis(start, static) == start

\* if 'static' not in self.access: ... start += 1
FirstParamReg(start, static) == IF static THEN start ELSE start + 1

\* num_param += util.get_type_size(ptype)
NextNumParam(num_param, ptype) == num_param + get_type_size(ptype)

\* for ptype in self.params_type: ...
RECURSIVE ParamLoop(_, _, _, _)
ParamLoop(ptypes, start, num_param, acc) ==
    IF ptypes = <<>> THEN acc
    ELSE LET ptype == Head(ptypes)
             param == start + num_param
         IN ParamLoop(Tail(ptypes), start, NextNumParam(num_param, ptype),
                [lparams |-> Append(acc.lparams, param),
                 var_to_name |-> PutVar(acc.var_to_name, RegKey(param),
                                        Param(param, ptype))])

\* The code branch of the constructor: lparams and var_to_name.
InitParams(raw) ==
    IF IsNone(raw.code)
    THEN [lparams |-> <<>>, var_to_name |-> {}]
    ELSE LET start == FrameStart(Get(raw.code))
             this == IF raw.static
                     THEN [lparams |-> <<>>, var_to_name |-> {}]
                     ELSE [lparams |-> <<start>>,
                           var_to_name |-> {<<RegKey(start),
                                              ThisParam(start, raw.cls_name)>>}]
         IN ParamLoop(raw.params_type, FirstParamReg(start, raw.static), 0, this)

\* The annotations of an annotation set, as [annotation_type, annotation_objs]
\* pairs; a set is given by the types of its annotations, which have no
\* arguments.
EncodedAnnotations(set) == [i \in DOMAIN set |-> <<set[i], <<>>>>]

\* The concatenation of a list of lists.
RECURSIVE Flatten(_)
Flatten(lists) == IF lists = <<>> THEN <<>> ELSE Head(lists) \o Flatten(Tail(lists))

\* get_annotations(cm, annotation_offsets): offsets of 0 are skipped.  An
\* offset is given with the set the class manager finds there.
get_annotations(offsets) ==
    LET sets == SelectSeq(offsets, LAMBDA x : x.annotations_off # 0)
    IN Flatten([i \in DOMAIN sets |-> EncodedAnnotations(sets[i].set)])

\* get_parameter_annotations(cm, annotations): one entry for every reference
\* of every item, the empty list for a reference whose offset is 0.
get_parameter_annotations(annotations) ==
    Flatten([a \in DOMAIN annotations |->
               [r \in DOMAIN annotations[a].list |->
                  IF annotations[a].list[r].annotations_off # 0
                  THEN EncodedAnnotations(annotations[a].list[r].set)
                  ELSE <<>>]])

\* [[]] * n
EmptyLists(n) == [i \in 1..n |-> <<>>]

\* A constructor that never resets a list of the wrong length.
AdjustLength_noReset(extracted, n) ==
    IF n - Len(extracted) = 1 THEN <<<<>>>> \o extracted ELSE extracted

\* The extracted parameter annotations made to fit the n declared types.
AdjustLength(extracted, n) ==
    IF Len(extracted) # n
    THEN IF n - Len(extracted) = 1 THEN <<<<>>>> \o extracted ELSE EmptyLists(n)
    ELSE extracted

\* The parameter annotations of the method, given the items of the directory
\* that are about it.
ParamAnnotations(mine, n) ==
    IF Len(mine) > 0 THEN AdjustLength(get_parameter_annotations(mine), n) ELSE EmptyLists(n)

\* if self.adi != None: ... else: ...
InitAnnotations(raw) ==
    IF ~IsNone(raw.adi)
    THEN [method_annotations |->
              get_annotations(SelectSeq(Get(raw.adi).method_annotations,
                                        LAMBDA x : x.method_idx = raw.method_idx)),
          param_annotations |->
              ParamAnnotations(SelectSeq(Get(raw.adi).parameter_annotations,
                                         LAMBDA x : x.method_idx = raw.method_idx),
                               Len(raw.params_type))]
    ELSE [method_annotations |-> <<>>,
          param_annotations |-> EmptyLists(Len(raw.params_type))]

\* DvMethod(methanalysis, adi): the wrapper after construction.  `raw` is the
\* EncodedMethod with its analysis; it is kept as self.method.
DvMethod_init(raw) ==
    LET p == InitParams(raw)
    IN [isDv |-> TRUE,
        raw |-> raw,
        start_block |-> raw.has_block,
        cls_name |-> raw.cls_name,
        name |-> raw.name,
        static |-> raw.static,
        params_type |-> raw.params_type,
        lparams |-> p.lparams,
        var_to_name |-> p.var_to_name,
        method_annotations |-> InitAnnotations(raw).method_annotations,
        param_annotations |-> InitAnnotations(raw).param_annotations,
        writer |-> None,
        graph |-> None,
        ast |-> None]

(***************************************************************************)
(* DvMethod.process                                                        *)
(***************************************************************************)

\* The output builder process hands the graph to.
WriterSteps(doAST) ==
    IF doAST THEN <<"JSONWriter", "get_ast">> ELSE <<"Writer", "write_method">>

\* A pipeline that structures the graph before simplifying it.
CodeSteps_structureFirst(doAST) ==
    <<"construct", "build_def_use", "split_variables", "dead_code_elimination",
      "register_propagation", "resolve_variables_type", "new_instance_propgation",
      "register_tmp_vars", "place_declarations", "split_if_nodes",
      "immediate_dominators", "identify_structures", "simplify", "compute_rpo">>
    \o WriterSteps(doAST)

\* The calls and statements of process for a method with a start block, in
\* program order.
CodeSteps(doAST) ==
    <<"construct", "build_def_use", "split_variables", "dead_code_elimination",
      "register_propagation", "resolve_variables_type", "new_instance_propgation",
      "register_tmp_vars", "place_declarations", "split_if_nodes", "simplify",
      "compute_rpo", "immediate_dominators", "identify_structures">>
    \o WriterSteps(doAST)

\* A process without the early return for methods that have no block.
StepsOf_noNativeReturn(m, doAST) == CodeSteps(doAST)

\* if self.start_block is None: only the output builder runs.
StepsOf(m, doAST) == IF m.start_block THEN CodeSteps(doAST) ELSE WriterSteps(doAST)

\* The passes that rewrite the graph they are given.
GraphPasses ==
    {"split_variables", "dead_code_elimination", "register_propagation",
     "resolve_variables_type", "new_instance_propgation", "place_declarations",
     "split_if_nodes", "simplify", "compute_rpo", "identify_structures"}

\* The calls into the collaborators (graph, dataflow, control_flow, writer, dast):
\* each may raise.
Collaborators == (GraphPasses \cup {"construct", "build_def_use", "immediate_dominators"})
                 \cup {"JSONWriter", "get_ast", "Writer", "write_method"}

\* var.upper() on the characters a generated variable name is made of.
UpperChar(c) ==
    CASE c = "t" -> "T" [] c = "m" -> "M" [] c = "p" -> "P" [] OTHER -> c

Upper(s) == [i \in 1..Len(s) |-> UpperChar(s[i])]

\* for var, i in def_uses: if not isinstance(var, int): var_to_name[var] = var.upper()
RECURSIVE RegisterTmpVars(_, _)
RegisterTmpVars(v2n, keys) ==
    IF keys = {} THEN v2n
    ELSE LET k == CHOOSE x \in keys : TRUE
         IN RegisterTmpVars(
                IF k.tmp
                THEN PutVar(v2n, k, [tag |-> "name", reg |-> 0, type |-> Upper(k.name)])
                ELSE v2n,
                keys \ {k})

\* A call frame of process before its first statement.
NewFrame(doAST) ==
    [status |-> "running", doAST |-> doAST, pc |-> 1, graph |-> None, def_uses |-> {}]

IdleFrame == [status |-> "idle", doAST |-> FALSE, pc |-> 1, graph |-> None, def_uses |-> {}]

\* The effect of step `s` when it does not raise, on the method and the locals.
StepEffect(m, f, s) ==
    CASE s = "construct" ->
           LET g == Some([applied |-> <<"construct">>])
           IN [m |-> [m EXCEPT !.graph = g], f |-> [f EXCEPT !.graph = g]]
      [] s = "build_def_use" ->
           [m |-> m,
            f |-> [f EXCEPT !.def_uses = {RegKey(m.lparams[i]) : i \in DOMAIN m.lparams}
                                          \cup {TmpKey(t) : t \in m.raw.tmps}]]
      [] s \in GraphPasses ->
           LET g == Some([applied |-> Append(Get(f.graph).applied, s)])
           IN [m |-> [m EXCEPT !.graph = g],
               f |-> [f EXCEPT !.graph = g,
                               !.def_uses = IF s = "place_declarations" THEN {} ELSE @]]
      [] s = "register_tmp_vars" ->
           [m |-> [m EXCEPT !.var_to_name = RegisterTmpVars(@, f.def_uses)], f |-> f]
      [] s = "Writer" ->
           [m |-> [m EXCEPT !.writer = Some([graph |-> f.graph, written |-> FALSE])],
            f |-> f]
      [] s = "write_method" ->
           [m |-> [m EXCEPT !.writer = Some([Get(@) EXCEPT !.written = TRUE])], f |-> f]
      [] s = "get_ast" ->
           [m |-> [m EXCEPT !.ast = Some([graph |-> f.graph])], f |-> f]
      [] OTHER -> [m |-> m, f |-> f]

\* The step process is about to run.
CurrentStep(m, f) == StepsOf(m, f.doAST)[f.pc]

\* Whether the collaborator called at step `s` raises for this method.
Raises(m, s) == s \in Collaborators /\ m.raw.fail = s

\* Control after a step that took effect `e`: on to the next step, or back to
\* the caller after the last one.
Advance(e, last, s) ==
    [m |-> e.m,
     f |-> [e.f EXCEPT !.pc = IF last THEN @ ELSE @ + 1,
                       !.status = IF last THEN "returned" ELSE "running"],
     call |-> s]

\* Step `s` of process runs: it raises, or it takes effect and control moves on.
StepOutcome(m, f, s) ==
    IF Raises(m, s)
    THEN [m |-> m, f |-> [f EXCEPT !.status = "raised"], call |-> s]
    ELSE Advance(StepEffect(m, f, s), f.pc = Len(StepsOf(m, f.doAST)), s)

\* One statement of process: the step at f.pc.
ProcessStep(m, f) == StepOutcome(m, f, CurrentStep(m, f))

\* process run to its end from the point `r`: the method it leaves, and how it
\* ended.
RECURSIVE ProcessRun(_)
ProcessRun(r) ==
    IF r.f.status # "running" THEN r ELSE ProcessRun(ProcessStep(r.m, r.f))

\* DvMethod.process(doAST)
process(m, doAST) == ProcessRun([m |-> m, f |-> NewFrame(doAST), call |-> "none"])

\* DvMethod.get_source: str(self.writer) if there is a writer, else ''.
\* The text of a writer is the prototype and the body it was given.
WriterStr(m) ==
    LET w == Get(m.writer)
    IN <<" ">> \o m.name \o <<"(", ")", " ", "{">>
       \o (IF w.written /\ ~IsNone(w.graph) THEN <<"S", ";">> ELSE <<>>)
       \o <<"}", "\n">>

DvMethod_get_source(m) == IF ~IsNone(m.writer) THEN WriterStr(m) ELSE <<>>

(***************************************************************************)
(* The method under decompilation: inputs, and process statement by        *)
(* statement.                                                              *)
(***************************************************************************)

ParamTypes == {<<"I">>, <<"J">>}

RECURSIVE SeqsUpTo(_, _)
SeqsUpTo(S, n) ==
    IF n = 0 THEN {<<>>}
    ELSE LET shorter == SeqsUpTo(S, n - 1)
         IN shorter \cup {Append(q, x) : q \in {t \in shorter : Len(t) = n - 1}, x \in S}

\* registers_size and ins_size of a code item: the ins are part of the frame.
CodeItems ==
    {[registers_size |-> r, ins_size |-> i] : r \in 0..MaxRegs, i \in 0..MaxRegs} 

ValidCodeItems == {c \in CodeItems : c.ins_size <= c.registers_size}

TmpNames == {<<"t", "m", "p", "0">>}

NoFail == "none"

\* An EncodedMethod with its analysis: a method without code has no basic block.
RawMethod(name, static, ptypes, code, has_block, fail, tmps) ==
    [isDv |-> FALSE, name |-> name, cls_name |-> <<"L", "a", "/", "B", ";">>,
     static |-> static, params_type |-> ptypes, code |-> code,
     has_block |-> has_block, fail |-> fail, tmps |-> tmps,
     method_idx |-> 1, adi |-> None]

\* Methods whose frame layout varies, and methods whose passes fail somewhere.
MethodInputs ==
    {RawMethod(<<"f">>, st, pt, Some(c), TRUE, NoFail, {}) :
        st \in BOOLEAN, pt \in SeqsUpTo(ParamTypes, MaxParams), c \in ValidCodeItems}
    \cup
    {RawMethod(<<"f">>, st, <<<<"J">>, <<"I">>>>,
               Some([registers_size |-> 5, ins_size |-> 4]), hb, fl, tm) :
        st \in BOOLEAN, hb \in BOOLEAN, fl \in Collaborators \cup {NoFail},
        tm \in SUBSET TmpNames}
    \cup
    {RawMethod(<<"f">>, st, pt, None, FALSE, fl, {}) :
        st \in BOOLEAN, pt \in SeqsUpTo(ParamTypes, 1),
        fl \in {NoFail, "Writer", "write_method", "JSONWriter", "get_ast"}}

MethodInit ==
    /\ \E raw \in MethodInputs : method = DvMethod_init(raw)
    /\ frame = IdleFrame
    /\ calls = <<>>
    /\ fld = Off
    /\ fres = Off
    /\ cls = Off
    /\ loop = Off
    /\ attempts = Off
    /\ out = Off
    /\ ext = Off
    /\ machine = Off
    /\ mop = Off

\* A caller invokes process(doAST) on the method.
ProcessCall ==
    /\ frame.status # "running"
    /\ \E doAST \in BOOLEAN : frame' = NewFrame(doAST)
    /\ calls' = <<>>
    /\ UNCHANGED <<method, fieldVars, classVars, machineVars>>

\* process runs its next statement.
ProcessStatement ==
    /\ frame.status = "running"
    /\ LET r == ProcessStep(method, frame)
       IN /\ method' = r.m
          /\ frame' = r.f
          /\ calls' = Append(calls, r.call)
    /\ UNCHANGED <<fieldVars, classVars, machineVars>>

MethodNext == ProcessCall \/ ProcessStatement

SpecMethod == MethodInit /\ [][MethodNext]_vars

(***************************************************************************)
(* Properties of DvMethod.                                                 *)
(***************************************************************************)

IsPrefix(p, q) == Len(p) <= Len(q) /\ SubSeq(q, 1, Len(p)) = p

NoRepeat(q) == \A i, j \in DOMAIN q : i # j => q[i] # q[j]

Last(q) == q[Len(q)]

\* The order the pipeline is documented to have, with the output builder last.
DocumentedOrder(doAST) ==
    <<"construct", "build_def_use", "split_variables", "dead_code_elimination",
      "register_propagation", "resolve_variables_type", "new_instance_propgation",
      "register_tmp_vars", "place_declarations", "split_if_nodes", "simplify",
      "compute_rpo", "immediate_dominators", "identify_structures">>
    \o (IF doAST THEN <<"JSONWriter", "get_ast">> ELSE <<"Writer", "write_method">>)

Position(q, x) == CHOOSE i \in DOMAIN q : q[i] = x

\* C1: in one call of process on a method with a start block, the calls made so
\* far are a prefix of the documented order: each pass at most once, none before
\* its predecessors; a call that returns has made all of them, the builder last;
\* a call that raised stopped at the pass that raised; structuring never precedes
\* simplify, and no propagation precedes build_def_use.
C1_PipelineOrder ==
    (method.start_block /\ frame.status # "idle") =>
        /\ IsPrefix(calls, DocumentedOrder(frame.doAST))
        /\ NoRepeat(calls)
        /\ frame.status = "returned" => calls = DocumentedOrder(frame.doAST)
        /\ frame.status = "raised" =>
              /\ calls # <<>>
              /\ Last(calls) = method.raw.fail
        /\ \A i \in DOMAIN calls :
              /\ calls[i] \in {"immediate_dominators", "identify_structures"} =>
                    \E j \in 1..(i - 1) : calls[j] = "compute_rpo"
              /\ calls[i] = "compute_rpo" => \E j \in 1..(i - 1) : calls[j] = "simplify"
              /\ calls[i] \in {"register_propagation", "new_instance_propgation"} =>
                    \E j \in 1..(i - 1) : calls[j] = "build_def_use"

\* A method with code whose process returned after the whole pipeline, its
\* generated names registered.
C1_Witness ==
    /\ method.start_block
    /\ frame.status = "returned"
    /\ Len(calls) = 16
    /\ method.raw.tmps # {}
    /\ \E p \in method.var_to_name : p[2].tag = "name"

\* C4: process on a method without a start block calls no pass of the pipeline
\* and leaves graph None; when it returns it has handed None to exactly one
\* output builder, JSONWriter if doAST and Writer otherwise, and the text of the
\* method is its prototype with an empty body.
C4_NativeMethod ==
    (~method.start_block /\ frame.status # "idle") =>
        /\ IsNone(method.graph)
        /\ IsNone(frame.graph)
        /\ \A i \in DOMAIN calls :
              calls[i] \in {"JSONWriter", "get_ast", "Writer", "write_method"}
        /\ frame.status = "returned" =>
              /\ Cardinality({i \in DOMAIN calls : calls[i] \in {"JSONWriter", "Writer"}}) = 1
              /\ calls[1] = (IF frame.doAST THEN "JSONWriter" ELSE "Writer")
              /\ frame.doAST => method.ast = Some([graph |-> None])
              /\ ~frame.doAST =>
                    /\ method.writer = Some([graph |-> None, written |-> TRUE])
                    /\ DvMethod_get_source(method)
                         = <<" ">> \o method.name \o <<"(", ")", " ", "{", "}", "\n">>

\* A native method rendered as text after an earlier rendering as an AST.
C4_Witness ==
    /\ ~method.start_block
    /\ IsNone(method.raw.code)
    /\ frame.status = "returned"
    /\ ~frame.doAST
    /\ ~IsNone(method.ast)
    /\ ~IsNone(method.writer)

RECURSIVE SumSizes(_)
SumSizes(ptypes) ==
    IF ptypes = <<>> THEN 0
    ELSE (IF Head(ptypes) \in {<<"J">>, <<"D">>} THEN 2 ELSE 1) + SumSizes(Tail(ptypes))

\* C7: after construction of a method with code, lparams starts at
\* registers_size - ins_size; a non-static method binds that register to this
\* and its declared parameters start one register later, a static one starts
\* them there; declared parameter k sits at the first declared register plus the
\* sizes of the parameters before it; so the registers increase strictly, and
\* lie in the last ins_size registers when ins_size is the size of the
\* parameters, plus one for this.
C7_ParamRegisters ==
    (frame.status = "idle" /\ ~IsNone(method.raw.code)) =>
        LET code == Get(method.raw.code)
            start == code.registers_size - code.ins_size
            this == IF method.static THEN 0 ELSE 1
            first == start + this
            n == Len(method.params_type)
            lp == method.lparams
        IN /\ Len(lp) = n + this
           /\ lp # <<>> => lp[1] = start
           /\ ~method.static =>
                 /\ HasVar(method.var_to_name, RegKey(start))
                 /\ VarOf(method.var_to_name, RegKey(start)).tag = "ThisParam"
           /\ \A k \in 1..n :
                 /\ lp[k + this] = first + SumSizes(SubSeq(method.params_type, 1, k - 1))
                 /\ VarOf(method.var_to_name, RegKey(lp[k + this]))
                      = Param(lp[k + this], method.params_type[k])
           /\ \A i, j \in DOMAIN lp : i < j => lp[i] < lp[j]
           /\ code.ins_size = SumSizes(method.params_type) + this =>
                 \A i \in DOMAIN lp :
                     /\ lp[i] >= code.registers_size - code.ins_size
                     /\ lp[i] < code.registers_size

\* A method (long, int) whose ins fill the end of the frame exactly: the int
\* sits two registers after the long, in the last register.
C7_Witness ==
    /\ frame.status = "idle"
    /\ ~IsNone(method.raw.code)
    /\ method.params_type = <<<<"J">>, <<"I">>>>
    /\ Get(method.raw.code).ins_size = 3 + Len(method.lparams) - 2
    /\ Get(method.raw.code).registers_size > Get(method.raw.code).ins_size
    /\ method.lparams[Len(method.lparams)] = Get(method.raw.code).registers_size - 1
    /\ method.lparams[Len(method.lparams) - 1] = Get(method.raw.code).registers_size - 3

(***************************************************************************)
(* Text: Python str operations on sequences of characters.                 *)
(***************************************************************************)

RECURSIVE Join(_)
\* ''.join(parts)
Join(parts) == IF parts = <<>> THEN <<>> ELSE Head(parts) \o Join(Tail(parts))

RECURSIVE JoinWith(_, _)
\* sep.join(parts)
JoinWith(sep, parts) ==
    IF parts = <<>> THEN <<>>
    ELSE IF Len(parts) = 1 THEN parts[1]
    ELSE parts[1] \o sep \o JoinWith(sep, Tail(parts))

\* s.replace('/', '.')
ReplaceSlash(s) == [i \in 1..Len(s) |-> IF s[i] = "/" THEN "." ELSE s[i]]

\* s[1:-1]
Strip1(s) == SubSeq(s, 2, Len(s) - 1)

\* sub in s
Contains(s, sub) ==
    \E i \in 0..(Len(s) - Len(sub)) : SubSeq(s, i + 1, i + Len(sub)) = sub

HexDigit(d) ==
    <<"0", "1", "2", "3", "4", "5", "6", "7", "8", "9", "a", "b", "c", "d", "e", "f">>[d + 1]

RECURSIVE HexNat(_)
HexNat(n) == IF n < 16 THEN <<HexDigit(n)>> ELSE HexNat(n \div 16) \o <<HexDigit(n % 16)>>

\* hex(n)
Hex(n) == IF n < 0 THEN <<"-", "0", "x">> \o HexNat(-n) ELSE <<"0", "x">> \o HexNat(n)

RECURSIVE DecNat(_)
DecNat(n) == IF n < 10 THEN <<HexDigit(n)>> ELSE DecNat(n \div 10) \o <<HexDigit(n % 10)>>

\* str(n) for an int
Dec(n) == IF n < 0 THEN <<"-">> \o DecNat(-n) ELSE DecNat(n)

\* flag & access, for a flag that is one bit
HasBit(access, flag) == (access \div flag) % 2 = 1

(***************************************************************************)
(* Values a field initialiser holds (EncodedValue.value).                  *)
(***************************************************************************)

IntVal(n) == [kind |-> "int", n |-> n, s |-> <<>>]

BoolVal(b) == [kind |-> "bool", n |-> IF b THEN 1 ELSE 0, s |-> <<>>]

StrVal(s) == [kind |-> "str", n |-> 0, s |-> s]

NoneVal == [kind |-> "none", n |-> 0, s |-> <<>>]

\* bool(value)
Truthy(v) ==
    CASE v.kind = "int" -> v.n # 0
      [] v.kind = "bool" -> v.n = 1
      [] v.kind = "str" -> v.s # <<>>
      [] OTHER -> FALSE

\* str(value), '%s' % value, '{}'.format(value)
PyStr(v) ==
    CASE v.kind = "int" -> Dec(v.n)
      [] v.kind = "bool" -> IF v.n = 1 THEN <<"T", "r", "u", "e">> ELSE <<"F", "a", "l", "s", "e">>
      [] v.kind = "str" -> v.s
      [] OTHER -> <<"N", "o", "n", "e">>

\* value == 'True'
EqualsTrueText(v) == v.kind = "str" /\ v.s = <<"T", "r", "u", "e">>

\* One character under .encode("unicode-escape").decode("ascii")
EscapeChar(c) ==
    CASE c = "\n" -> <<"\\", "\n">>
      [] c = "\\" -> <<"\\", "\\">>
      [] OTHER -> <<c>>

UnicodeEscape(s) == Join([i \in 1..Len(s) |-> EscapeChar(s[i])])

\* struct.pack("B", val): the eight bits of one unsigned byte, lowest first.
Pack_B(val) == [i \in 1..8 |-> (val \div (2 ^ (i - 1))) % 2]

\* A decoder that reads the byte unsigned.
Unpack_unsigned(bits) ==
    bits[1] + 2 * bits[2] + 4 * bits[3] + 8 * bits[4] + 16 * bits[5] + 32 * bits[6]
    + 64 * bits[7] + 128 * bits[8]

\* struct.unpack("b", byte)[0]: the byte read as two's complement.
Unpack_b(bits) ==
    bits[1] + 2 * bits[2] + 4 * bits[3] + 8 * bits[4] + 16 * bits[5] + 32 * bits[6]
    + 64 * bits[7] - 128 * bits[8]

(***************************************************************************)
(* Fields: get_field_ast and the field lines of DvClass.get_source and     *)
(* DvClass.get_source_ext.                                                 *)
(***************************************************************************)

\* util.get_type for the descriptors fields have here.
get_type(descriptor) ==
    CASE descriptor = <<"B">> -> <<"b", "y", "t", "e">>
      [] descriptor = <<"Z">> -> <<"b", "o", "o", "l", "e", "a", "n">>
      [] descriptor = <<"I">> -> <<"i", "n", "t">>
      [] descriptor = <<"J">> -> <<"l", "o", "n", "g">>
      [] descriptor = <<"L", "j", "a", "v", "a", "/", "l", "a", "n", "g", "/", "S", "t", "r", "i", "n", "g", ";">> -> <<"S", "t", "r", "i", "n", "g">>
      [] OTHER -> ReplaceSlash(Strip1(descriptor))

\* util.get_access_field / util.ACCESS_FLAGS_FIELDS: the modifiers of the flags
\* set, in increasing flag order.
get_access_field(access) ==
    (IF HasBit(access, 1) THEN <<<<"p", "u", "b", "l", "i", "c">>>> ELSE <<>>)
    \o (IF HasBit(access, 8) THEN <<<<"s", "t", "a", "t", "i", "c">>>> ELSE <<>>)
    \o (IF HasBit(access, 16) THEN <<<<"f", "i", "n", "a", "l">>>> ELSE <<>>)

\* A call of a literal builder of dast: which one, and on what.
Literal(fn, arg) == Some([fn |-> fn, arg |-> arg])

\* literal_bool(val == 'True')
BoolLiteral(val) == Literal("literal_bool", BoolVal(EqualsTrueText(val)))

\* get_field_ast(field, annotations)['expr']
get_field_ast_expr(field) ==
    IF IsNone(field.init_value) THEN None
    ELSE LET val == Get(field.init_value).value
             descriptor == field.descriptor
         IN IF val.kind = "none" THEN None
            ELSE IF descriptor = <<"L", "j", "a", "v", "a", "/", "l", "a", "n", "g", "/", "S", "t", "r", "i", "n", "g", ";">> THEN Literal("literal_string", val)
            ELSE IF descriptor = <<"Z">> THEN BoolLiteral(val)
            ELSE IF Contains(<<"I", "S", "C">>, descriptor) THEN Literal("literal_int", val)
            ELSE IF field.descriptor = <<"B">>
                 THEN Literal("literal_hex_int", IntVal(Unpack_b(Pack_B(val.n))))
            ELSE IF Contains(<<"J">>, descriptor) THEN Literal("literal_long", val)
            ELSE IF Contains(<<"F">>, descriptor) THEN Literal("literal_float", val)
            ELSE IF Contains(<<"D">>, descriptor) THEN Literal("literal_double", val)
            ELSE IF descriptor = <<"L", "j", "a", "v", "a", "/", "l", "a", "n", "g", "/", "C", "l", "a", "s", "s", ";">> THEN Literal("literal_class", val)
            ELSE Literal("dummy", StrVal(PyStr(val)))

\* The strings DvClass.get_source appends to `source` for one field.
FieldSource(field) ==
    LET name == field.name
        access == get_access_field(field.access_flags)
        f_type == get_type(field.descriptor)
        head == <<<<" ", " ", " ", " ">>>>
                \o (IF access # <<>> THEN <<JoinWith(<<" ">>, access), <<" ">>>> ELSE <<>>)
    IN IF ~IsNone(field.init_value)
       THEN LET v == Get(field.init_value).value
                value == IF f_type = <<"S", "t", "r", "i", "n", "g">>
                         THEN IF Truthy(v)
                              THEN <<"\"">> \o UnicodeEscape(PyStr(v)) \o <<"\"">>
                              ELSE <<"\"", "\"">>
                         ELSE IF field.descriptor = <<"B">>
                              THEN Hex(Unpack_b(Pack_B(v.n)))
                              ELSE PyStr(v)
            IN Append(head, f_type \o <<" ">> \o name \o <<" ", "=", " ">> \o value \o <<";", "\n">>)
       ELSE Append(head, f_type \o <<" ">> \o name \o <<";", "\n">>)

Tok(tag, text) == [tag |-> tag, text |-> text]

\* The ('FIELD', [...]) entry DvClass.get_source_ext appends for one field.
FieldSourceExt(field) ==
    LET access == get_access_field(field.access_flags)
        f_type == get_type(field.descriptor)
        name == field.name
        access_str == IF access # <<>>
                      THEN <<" ", " ", " ", " ">> \o JoinWith(<<" ">>, access) \o <<" ">>
                      ELSE <<" ", " ", " ", " ">>
        value == IF IsNone(field.init_value) THEN None
                 ELSE LET v == Get(field.init_value).value
                      IN IF f_type = <<"S", "t", "r", "i", "n", "g">>
                         THEN IF Truthy(v)
                              THEN Some(<<" ", "=", " ", "\"">> \o UnicodeEscape(v.s) \o <<"\"">>)
                              ELSE Some(<<" ", "=", " ", "\"", "\"">>)
                         ELSE IF field.descriptor = <<"B">>
                              THEN Some(<<" ", "=", " ">> \o Hex(Unpack_b(Pack_B(v.n))))
                              ELSE Some(<<" ", "=", " ">> \o PyStr(v))
        front == <<Tok("FIELD_ACCESS", access_str), Tok("FIELD_TYPE", f_type),
                   Tok("SPACE", <<" ">>), Tok("NAME_FIELD", name)>>
    IN Tok("FIELD",
           IF ~IsNone(value) /\ Get(value) # <<>>
           THEN front \o <<Tok("FIELD_VALUE", Get(value)), Tok("FIELD_END", <<";", "\n">>)>>
           ELSE front \o <<Tok("FIELD_END", <<";", "\n">>)>>)


(***************************************************************************)
(* One field, decoded by each of the three renderings.                     *)
(***************************************************************************)

Field(name, access, descriptor, init_value) ==
    [name |-> name, access_flags |-> access, descriptor |-> descriptor,
     init_value |-> init_value]

EncodedValue(v) == [value |-> v]

\* The unsigned values one storage byte holds.
ByteMax == 255

FieldAccessFlags == {0, 1, 25}

\* Fields with the initial values the container stores for their type; a
\* boolean in each form a frontend may keep it in.
FieldInputs ==
    {Field(<<"x">>, a, <<"B">>, Some(EncodedValue(IntVal(v)))) :
        a \in FieldAccessFlags, v \in 0..ByteMax}
    \cup
    {Field(<<"x">>, a, <<"Z">>, Some(EncodedValue(v))) :
        a \in FieldAccessFlags,
        v \in {BoolVal(TRUE), BoolVal(FALSE), IntVal(1), IntVal(0),
               StrVal(<<"T", "r", "u", "e">>), StrVal(<<"F", "a", "l", "s", "e">>)}}
    \cup
    {Field(<<"x">>, a, <<"I">>, iv) :
        a \in FieldAccessFlags,
        iv \in {None, Some(EncodedValue(IntVal(7))), Some(EncodedValue(IntVal(-3))),
                Some(EncodedValue(NoneVal))}}
    \cup
    {Field(<<"x">>, a, <<"L", "j", "a", "v", "a", "/", "l", "a", "n", "g", "/", "S", "t", "r", "i", "n", "g", ";">>, iv) :
        a \in FieldAccessFlags,
        iv \in {None, Some(EncodedValue(StrVal(<<>>))), Some(EncodedValue(StrVal(<<"a", "\n", "b">>))),
                Some(EncodedValue(NoneVal))}}

NoResult == [ast |-> None, source |-> None, ext |-> None]

FieldInit ==
    /\ fld \in FieldInputs
    /\ fres = NoResult
    /\ method = Off
    /\ frame = Off
    /\ calls = Off
    /\ cls = Off
    /\ loop = Off
    /\ attempts = Off
    /\ out = Off
    /\ ext = Off
    /\ machine = Off
    /\ mop = Off

\* get_field_ast(field, annotations): the 'expr' of the result is kept, as
\* [expr |-> ...] since it may be None.
GetFieldAst ==
    /\ fres' = [fres EXCEPT !.ast = Some([expr |-> get_field_ast_expr(fld)])]
    /\ UNCHANGED <<fld, methodVars, classVars, machineVars>>

\* The field's part of DvClass.get_source, joined.
GetFieldSource ==
    /\ fres' = [fres EXCEPT !.source = Some(Join(FieldSource(fld)))]
    /\ UNCHANGED <<fld, methodVars, classVars, machineVars>>

\* The field's part of DvClass.get_source_ext.
GetFieldSourceExt ==
    /\ fres' = [fres EXCEPT !.ext = Some(FieldSourceExt(fld))]
    /\ UNCHANGED <<fld, methodVars, classVars, machineVars>>

FieldNext == GetFieldAst \/ GetFieldSource \/ GetFieldSourceExt

SpecField == FieldInit /\ [][FieldNext]_vars

(***************************************************************************)
(* Properties of the field decoding.                                       *)
(***************************************************************************)

HexValue(c) ==
    CHOOSE d \in 0..15 :
        <<"0", "1", "2", "3", "4", "5", "6", "7", "8", "9", "a", "b", "c", "d", "e", "f">>[d + 1] = c

RECURSIVE ParseHexNat(_)
ParseHexNat(s) ==
    IF s = <<>> THEN 0 ELSE 16 * ParseHexNat(SubSeq(s, 1, Len(s) - 1)) + HexValue(s[Len(s)])

\* The integer a Java hexadecimal literal such as -0x2 denotes.
ParseHex(s) ==
    IF s[1] = "-" THEN 0 - ParseHexNat(SubSeq(s, 4, Len(s))) ELSE ParseHexNat(SubSeq(s, 3, Len(s)))

\* The text between " = " and the closing ";" of a rendered field.
RenderedValue(text) ==
    LET i == CHOOSE k \in 1..Len(text) : SubSeq(text, k, k + 2) = <<" ", "=", " ">>
    IN SubSeq(text, i + 3, Len(text) - 2)

TokenText(entry, tag) ==
    (CHOOSE t \in {entry.text[i] : i \in DOMAIN entry.text} : t.tag = tag).text

IsByteField == fld.descriptor = <<"B">> /\ ~IsNone(fld.init_value)

StoredByte == Get(fld.init_value).value.n

SignedOf(v) == IF v <= 127 THEN v ELSE v - 256

\* C6: a byte field whose initial value is stored as v in 0..255 is decoded to v
\* when v <= 127 and to v - 256 otherwise, and get_field_ast, get_source and
\* get_source_ext all give that value.
C6_SignedByte ==
    (fld # Off /\ IsByteField) =>
        /\ ~IsNone(fres.ast) =>
              Get(fres.ast).expr = Literal("literal_hex_int", IntVal(SignedOf(StoredByte)))
        /\ ~IsNone(fres.source) =>
              ParseHex(RenderedValue(Get(fres.source))) = SignedOf(StoredByte)
        /\ ~IsNone(fres.ext) =>
              ParseHex(SubSeq(TokenText(Get(fres.ext), "FIELD_VALUE"), 4,
                              Len(TokenText(Get(fres.ext), "FIELD_VALUE"))))
                = SignedOf(StoredByte)

\* The byte 0xFE decoded by all three: -2, rendered as -0x2.
C6_Witness ==
    /\ fld # Off
    /\ IsByteField
    /\ StoredByte = 254
    /\ ~IsNone(fres.ast)
    /\ Get(Get(fres.ast).expr).arg.n = -2
    /\ ~IsNone(fres.source)
    /\ RenderedValue(Get(fres.source)) = <<"-", "0", "x", "2">>
    /\ ~IsNone(fres.ext)
    /\ TokenText(Get(fres.ext), "FIELD_VALUE") = <<" ", "=", " ", "-", "0", "x", "2">>

IsBoolField == fld.descriptor = <<"Z">> /\ ~IsNone(fld.init_value)

\* C8: for a field of descriptor Z with an initial value, get_field_ast gives
\* the literal true exactly when the stored value is true or non-zero, in
\* whatever form the value is stored.
C8_BoolFromValue ==
    (fld # Off /\ IsBoolField /\ ~IsNone(fres.ast)) =>
        LET v == Get(fld.init_value).value
            stored == CASE v.kind = "bool" -> v.n = 1
                        [] v.kind = "int" -> v.n # 0
                        [] OTHER -> v.s = <<"T", "r", "u", "e">>
        IN Get(fres.ast).expr = Literal("literal_bool", BoolVal(stored))


(***************************************************************************)
(* DvClass                                                                 *)
(***************************************************************************)

\* name.find('/'): the index of the first '/', from 0, or -1.
FindSlash(s) ==
    IF \E i \in DOMAIN s : s[i] = "/"
    THEN (CHOOSE i \in DOMAIN s : s[i] = "/" /\ \A j \in 1..(i - 1) : s[j] # "/") - 1
    ELSE -1

\* name.rsplit('/', 1), for a name that holds a '/': what precedes the last '/'
\* and what follows it.
RSplitSlash(s) ==
    LET i == CHOOSE k \in DOMAIN s : s[k] = "/" /\ \A j \in (k + 1)..Len(s) : s[j] # "/"
    IN <<SubSeq(s, 1, i - 1), SubSeq(s, i + 1, Len(s))>>

\* pckg, name of DvClass.__init__
SplitClassName(name) ==
    IF FindSlash(name) > 0 THEN RSplitSlash(name) ELSE <<<<>>, name>>

\* util.get_access_class: the modifiers of the flags set, in increasing flag order.
get_access_class(access) ==
    (IF HasBit(access, 1) THEN <<<<"p", "u", "b", "l", "i", "c">>>> ELSE <<>>)
    \o (IF HasBit(access, 16) THEN <<<<"f", "i", "n", "a", "l">>>> ELSE <<>>)
    \o (IF HasBit(access, 512) THEN <<<<"i", "n", "t", "e", "r", "f", "a", "c", "e">>>> ELSE <<>>)
    \o (IF HasBit(access, 1024) THEN <<<<"a", "b", "s", "t", "r", "a", "c", "t">>>> ELSE <<>>)

\* The access flags get_access_class is given: an interface loses abstract.
ClassAccess(access) ==
    IF HasBit(access, 512) /\ HasBit(access, 1024) THEN access - 1024 ELSE access

\* self.prototype
Prototype(access, modifiers, name) ==
    IF HasBit(access, 512)
    THEN JoinWith(<<" ">>, modifiers) \o <<" ">> \o name
    ELSE JoinWith(<<" ">>, modifiers) \o <<" ", "c", "l", "a", "s", "s", " ">> \o name

\* DvClass(dvclass, vma)
DvClass_init(dvclass) ==
    LET split == SplitClassName(dvclass.name)
        pckg == split[1]
        name == SubSeq(split[2], 1, Len(split[2]) - 1)
        modifiers == get_access_class(ClassAccess(dvclass.access_flags))
    IN [isDv |-> TRUE,
        package |-> ReplaceSlash(SubSeq(pckg, 2, Len(pckg))),
        name |-> name,
        methods |-> dvclass.methods,
        fields |-> dvclass.fields,
        inner |-> FALSE,
        access |-> modifiers,
        prototype |-> Prototype(dvclass.access_flags, modifiers, name),
        interfaces |-> dvclass.interfaces,
        superclass |-> dvclass.superclass,
        thisclass |-> dvclass.name]

\* A process_method that keeps the wrapper in the first slot.
StoreMethod_first(c, num, m) == [c EXCEPT !.methods[1] = m]

\* self.methods[num] = ...  (num counts from 0)
StoreMethod(c, num, m) == [c EXCEPT !.methods[num + 1] = m]

\* The class once process has ended as `r` on the wrapper of slot num, which
\* holds that wrapper, and whether process raised.
Processed(c, num, r) == [c |-> StoreMethod(c, num, r.m), raised |-> r.f.status = "raised"]

\* DvClass.process_method(num, doAST): the class it leaves and whether it raised.
\* The constructor of DvMethod may raise, before the slot is written.
process_method(c, num, doAST) ==
    IF ~c.methods[num + 1].isDv /\ c.methods[num + 1].fail = "DvMethod"
    THEN [c |-> c, raised |-> TRUE]
    ELSE Processed(c, num,
                   process(IF ~c.methods[num + 1].isDv
                           THEN DvMethod_init(c.methods[num + 1])
                           ELSE c.methods[num + 1],
                           doAST))

\* The loop of DvClass.process before its first iteration.
NewLoop(doAST) == [status |-> "running", i |-> 0, doAST |-> doAST]

IdleLoop == [status |-> "idle", i |-> 0, doAST |-> FALSE]

\* A loop body without the try: the exception leaves process.
AfterMethod_noTry(lp, raised) ==
    IF raised THEN [lp EXCEPT !.status = "escaped"] ELSE [lp EXCEPT !.i = @ + 1]

\* try: self.process_method(i) except Exception: logger.warning(...)
\* Raised or not, the loop goes on with the next index.
AfterMethod(lp, raised) == [lp EXCEPT !.i = @ + 1]

\* The end of the turn for index lp.i, in which process_method ended as `r`.
TurnEnd(lp, r) == [c |-> r.c, lp |-> AfterMethod(lp, r.raised), tried |-> <<lp.i>>]

\* One turn of the loop of DvClass.process, or its return after the last index.
ClassProcessStep(c, lp) ==
    IF lp.i < Len(c.methods)
    THEN TurnEnd(lp, process_method(c, lp.i, lp.doAST))
    ELSE [c |-> c, lp |-> [lp EXCEPT !.status = "returned"], tried |-> <<>>]

RECURSIVE ClassProcessRun(_)
ClassProcessRun(r) ==
    IF r.lp.status # "running" THEN r ELSE ClassProcessRun(ClassProcessStep(r.c, r.lp))

\* DvClass.process(doAST), to its end.
DvClass_process(c, doAST) == ClassProcessRun([c |-> c, lp |-> NewLoop(doAST), tried |-> <<>>])

\* A get_source that prints the package line of every class that is not inner.
PackagePart_always(c) ==
    IF ~c.inner THEN <<<<"p", "a", "c", "k", "a", "g", "e", " ">> \o c.package \o <<";", "\n">>>> ELSE <<>>

\* if not self.inner and self.package: source.append('package %s;\n' % ...)
PackagePart(c) ==
    IF ~c.inner /\ c.package # <<>>
    THEN <<<<"p", "a", "c", "k", "a", "g", "e", " ">> \o c.package \o <<";", "\n">>>>
    ELSE <<>>

\* The prototype with its extends and implements clauses.
FullPrototype(c) ==
    LET withSuper ==
            IF ~IsNone(c.superclass) /\ Get(c.superclass) # <<"L", "j", "a", "v", "a", "/", "l", "a", "n", "g", "/", "O", "b", "j", "e", "c", "t", ";">>
            THEN c.prototype \o <<" ", "e", "x", "t", "e", "n", "d", "s", " ">> \o ReplaceSlash(Strip1(Get(c.superclass)))
            ELSE c.prototype
    IN IF Len(c.interfaces) > 0
       THEN withSuper \o <<" ", "i", "m", "p", "l", "e", "m", "e", "n", "t", "s", " ">>
            \o JoinWith(<<",", " ">>, [i \in DOMAIN c.interfaces |->
                                    ReplaceSlash(Strip1(c.interfaces[i]))])
       ELSE withSuper

\* for method in self.methods: if isinstance(method, DvMethod): ...
MethodParts(c) ==
    LET dv == SelectSeq(c.methods, LAMBDA m : m.isDv)
    IN [i \in DOMAIN dv |-> DvMethod_get_source(dv[i])]

\* DvClass.get_source: the list `source`.
SourceList(c) ==
    PackagePart(c)
    \o <<FullPrototype(c) \o <<" ", "{", "\n">>>>
    \o Join([i \in DOMAIN c.fields |-> FieldSource(c.fields[i])])
    \o MethodParts(c)
    \o <<<<"}", "\n">>>>

\* DvClass.get_source()
get_source(c) == Join(SourceList(c))

\* Writer.str_ext(): the text of the writer, as one entry.
WriterStrExt(m) == <<Tok("METHOD_TEXT", WriterStr(m))>>

\* DvMethod.get_source_ext: self.writer.str_ext() if there is a writer, else [].
DvMethod_get_source_ext(m) == IF ~IsNone(m.writer) THEN WriterStrExt(m) ELSE <<>>

\* The ('PACKAGE', [...]) entry of get_source_ext, if any.
PackageExt(c) ==
    IF ~c.inner /\ c.package # <<>>
    THEN <<Tok("PACKAGE", <<Tok("PACKAGE_START", <<"p", "a", "c", "k", "a", "g", "e", " ">>),
                            Tok("NAME_PACKAGE", c.package),
                            Tok("PACKAGE_END", <<";", "\n">>)>>)>>
    ELSE <<>>

\* The NAME_INTERFACE entries, with a COMMA before all but the first.
InterfacesExt(interfaces) ==
    Flatten([i \in DOMAIN interfaces |->
               (IF i # 1 THEN <<Tok("COMMA", <<",", " ">>)>> ELSE <<>>)
               \o <<Tok("NAME_INTERFACE", ReplaceSlash(Strip1(interfaces[i])))>>])

\* list_proto of get_source_ext.  An entry is given by its tag and its text.
ListProto(c) ==
    <<Tok("PROTOTYPE_ACCESS", JoinWith(<<" ">>, c.access) \o <<" ", "c", "l", "a", "s", "s", " ">>),
      Tok("NAME_PROTOTYPE", c.name)>>
    \o (IF ~IsNone(c.superclass) /\ Get(c.superclass) # <<"L", "j", "a", "v", "a", "/", "l", "a", "n", "g", "/", "O", "b", "j", "e", "c", "t", ";">>
        THEN <<Tok("EXTEND", <<" ", "e", "x", "t", "e", "n", "d", "s", " ">>),
               Tok("NAME_SUPERCLASS", ReplaceSlash(Strip1(Get(c.superclass))))>>
        ELSE <<>>)
    \o (IF Len(c.interfaces) > 0
        THEN <<Tok("IMPLEMENTS", <<" ", "i", "m", "p", "l", "e", "m", "e", "n", "t", "s", " ">>)>> \o InterfacesExt(c.interfaces)
        ELSE <<>>)
    \o <<Tok("PROTOTYPE_END", <<" ", "{", "\n">>)>>

\* for method in self.methods: if isinstance(method, DvMethod): ...
MethodsExt(c) ==
    LET dv == SelectSeq(c.methods, LAMBDA m : m.isDv)
    IN [i \in DOMAIN dv |-> Tok("METHOD", DvMethod_get_source_ext(dv[i]))]

\* DvClass.get_source_ext()
get_source_ext(c) ==
    PackageExt(c)
    \o <<Tok("PROTOTYPE", ListProto(c))>>
    \o [i \in DOMAIN c.fields |-> FieldSourceExt(c.fields[i])]
    \o MethodsExt(c)
    \o <<Tok("CLASS_END", <<Tok("CLASS_END", <<"}", "\n">>)>>)>>


(***************************************************************************)
(* A class under decompilation: DvClass.process turn by turn, and          *)
(* process_method called on its own.                                       *)
(***************************************************************************)

MaxMethods == 2

ClassDefItem(name, access, superclass, interfaces, fields, methods) ==
    [isDv |-> FALSE, name |-> name, access_flags |-> access, superclass |-> superclass,
     interfaces |-> interfaces, fields |-> fields, methods |-> methods, complete |-> TRUE]

\* A method of a class: `fail` names what raises when it is decompiled.
ClassMethod(name, has_code, fail) ==
    RawMethod(name, FALSE, <<<<"I">>>>,
              IF has_code THEN Some([registers_size |-> 3, ins_size |-> 2]) ELSE None,
              has_code, fail, {})

\* The passes from CFG construction through structure identification.
PipelinePasses == (GraphPasses \cup {"construct", "build_def_use", "immediate_dominators"})

MethodKinds ==
    {ClassMethod(<<"f">>, TRUE, NoFail), ClassMethod(<<"g">>, FALSE, NoFail),
     ClassMethod(<<"h">>, TRUE, "DvMethod"), ClassMethod(<<"k">>, TRUE, "construct"),
     ClassMethod(<<"l">>, TRUE, "identify_structures"),
     ClassMethod(<<"m">>, TRUE, "write_method")}

ClassInputs ==
    {ClassDefItem(<<"L", "a", "/", "B", ";">>, 1, Some(<<"L", "j", "a", "v", "a", "/", "l", "a", "n", "g", "/", "O", "b", "j", "e", "c", "t", ";">>), <<>>, <<>>, ms) :
        ms \in SeqsUpTo(MethodKinds, MaxMethods)}

ClassInit ==
    /\ \E d \in ClassInputs : cls = DvClass_init(d)
    /\ loop = IdleLoop
    /\ attempts = <<>>
    /\ out = Off
    /\ ext = Off
    /\ machine = Off
    /\ mop = Off
    /\ method = Off
    /\ frame = Off
    /\ calls = Off
    /\ fld = Off
    /\ fres = Off

\* A caller invokes DvClass.process(doAST).
ClassProcessCall ==
    /\ loop.status # "running"
    /\ \E doAST \in BOOLEAN : loop' = NewLoop(doAST)
    /\ attempts' = <<>>
    /\ UNCHANGED <<cls, out, ext, methodVars, fieldVars, machineVars>>

\* The loop of DvClass.process takes its next turn, or ends.
ClassProcessTurn ==
    /\ loop.status = "running"
    /\ LET r == ClassProcessStep(cls, loop)
       IN /\ cls' = r.c
          /\ loop' = r.lp
          /\ attempts' = attempts \o r.tried
    /\ UNCHANGED <<out, ext, methodVars, fieldVars, machineVars>>

\* A caller invokes process_method(num, doAST) itself, as main does.
ProcessMethodCall ==
    /\ loop.status # "running"
    /\ \E num \in 0..(Len(cls.methods) - 1), doAST \in BOOLEAN :
          cls' = process_method(cls, num, doAST).c
    /\ UNCHANGED <<loop, attempts, out, ext, methodVars, fieldVars, machineVars>>

ClassNext == ClassProcessCall \/ ClassProcessTurn \/ ProcessMethodCall

SpecClass == ClassInit /\ [][ClassNext]_vars


(***************************************************************************)
(* Properties of DvClass.process and process_method.                       *)
(***************************************************************************)

\* The indices 0..n-1 in increasing order.
Indices(n) == [k \in 1..n |-> k - 1]

C2_State ==
    (cls # Off /\ loop.status # "idle") =>
        /\ loop.status \in {"running", "returned"}
        /\ attempts = Indices(loop.i)
        /\ loop.i <= Len(cls.methods)
        /\ loop.status = "returned" => attempts = Indices(Len(cls.methods))

C2_Turn ==
    (cls # Off /\ loop.status = "running" /\ loop.i < Len(cls.methods)) =>
        /\ Len(cls'.methods) = Len(cls.methods)
        /\ \A j \in DOMAIN cls.methods :
              j # loop.i + 1 =>
                 /\ cls'.methods[j] = cls.methods[j]
                 /\ cls.methods[j].isDv =>
                       DvMethod_get_source(cls'.methods[j]) = DvMethod_get_source(cls.methods[j])

\* C2: a call of DvClass.process gives process_method the indices 0..n-1, each
\* once and in increasing order, whichever methods raise; no exception leaves
\* the loop; and the turn for method i changes no other slot of methods and no
\* text already produced for another method.
C2_EveryMethodAttempted == [](C2_State) /\ [][C2_Turn]_vars

\* process returned over two methods, the first of which failed in construct
\* while the second was written.
C2_Witness ==
    /\ cls # Off
    /\ loop.status = "returned"
    /\ attempts = <<0, 1>>
    /\ cls.methods[1].isDv
    /\ cls.methods[1].raw.fail = "construct"
    /\ IsNone(cls.methods[1].writer)
    /\ cls.methods[2].isDv
    /\ ~IsNone(cls.methods[2].writer)

RawOf(m) == IF m.isDv THEN m.raw ELSE m

\* The text of a method emitted as a stub: its prototype and an empty body.
Stub(m) == <<" ">> \o RawOf(m).name \o <<"(", ")", " ", "{", "}", "\n">>

\* C3: after DvClass.process, a method for which a step from CFG construction
\* through structure identification failed is present in the text of
\* get_source as a stub, its prototype with an empty body.
C3_FailedMethodStub ==
    (cls # Off /\ loop.status = "returned" /\ ~loop.doAST) =>
        \A i \in DOMAIN cls.methods :
            (RawOf(cls.methods[i]).has_block /\ RawOf(cls.methods[i]).fail \in PipelinePasses) =>
                /\ cls.methods[i].isDv
                /\ DvMethod_get_source(cls.methods[i]) = Stub(cls.methods[i])
                /\ Contains(get_source(cls), Stub(cls.methods[i]))

\* C10: process_method(i) changes slot i of methods only, and for two distinct
\* indices the class, what each call raised and the text of get_source are the
\* same whichever of the two methods is processed first.
C10_MethodsIndependent ==
    (cls # Off /\ loop.status # "running") =>
        \A i, j \in 0..(Len(cls.methods) - 1), di, dj \in BOOLEAN :
            i # j =>
                LET ri == process_method(cls, i, di)
                    rj == process_method(cls, j, dj)
                    rij == process_method(ri.c, j, dj)
                    rji == process_method(rj.c, i, di)
                IN /\ \A k \in DOMAIN cls.methods :
                         k # i + 1 => ri.c.methods[k] = cls.methods[k]
                   /\ rij.c = rji.c
                   /\ rij.raised = rj.raised
                   /\ rji.raised = ri.raised
                   /\ get_source(rij.c) = get_source(rji.c)

\* Two methods decompiled by separate calls of process_method, the second slot
\* as text and the first as an AST.
C10_Witness ==
    /\ cls # Off
    /\ loop.status = "idle"
    /\ Len(cls.methods) = 2
    /\ cls.methods[1].isDv
    /\ cls.methods[2].isDv
    /\ ~IsNone(cls.methods[1].ast)
    /\ IsNone(cls.methods[1].writer)
    /\ ~IsNone(cls.methods[2].writer)
    /\ IsNone(cls.methods[2].ast)


(***************************************************************************)
(* The text of a class: DvClass.process as one call, then get_source.      *)
(***************************************************************************)

MaxSourceMethods == 1

ClassNames == {<<"L", "a", "/", "B", ";">>, <<"L", "B", ";">>, <<"L", "a", "/", "b", "/", "C", ";">>}

ClassAccessFlags == {0, 1, 17, 1537}

Superclasses == {None, Some(<<"L", "j", "a", "v", "a", "/", "l", "a", "n", "g", "/", "O", "b", "j", "e", "c", "t", ";">>), Some(<<"L", "a", "/", "S", ";">>)}

InterfaceLists == {<<>>, <<<<"L", "a", "/", "I", ";">>>>, <<<<"L", "a", "/", "I", ";">>, <<"L", "J", ";">>>>}

FieldLists ==
    {<<>>,
     <<Field(<<"x">>, 25, <<"B">>, Some(EncodedValue(IntVal(254))))>>,
     <<Field(<<"y">>, 0, <<"Z">>, Some(EncodedValue(BoolVal(TRUE)))),
       Field(<<"z">>, 1, <<"L", "j", "a", "v", "a", "/", "l", "a", "n", "g", "/", "S", "t", "r", "i", "n", "g", ";">>, None)>>}

\* Classes whose header varies, and classes whose body varies.
SourceClassInputs ==
    {ClassDefItem(n, a, s, i, <<>>, <<>>) :
        n \in ClassNames, a \in ClassAccessFlags, s \in Superclasses, i \in InterfaceLists}
    \cup
    {ClassDefItem(n, 1, Some(<<"L", "a", "/", "S", ";">>), <<>>, f, ms) :
        n \in ClassNames, f \in FieldLists, ms \in SeqsUpTo(MethodKinds, MaxSourceMethods)}

SourceInit ==
    /\ \E d \in SourceClassInputs : cls = DvClass_init(d)
    /\ loop = IdleLoop
    /\ attempts = <<>>
    /\ out = None
    /\ ext = None
    /\ machine = Off
    /\ mop = Off
    /\ method = Off
    /\ frame = Off
    /\ calls = Off
    /\ fld = Off
    /\ fres = Off

\* DvClass.process(doAST), from call to return.
SourceProcess ==
    /\ \E doAST \in BOOLEAN : cls' = DvClass_process(cls, doAST).c
    /\ UNCHANGED <<loop, attempts, out, ext, methodVars, fieldVars, machineVars>>

\* DvClass.get_source(): the text, kept with the class it was made from.
GetSource ==
    /\ out' = Some([text |-> get_source(cls), c |-> cls])
    /\ UNCHANGED <<cls, loop, attempts, ext, methodVars, fieldVars, machineVars>>

\* DvClass.get_source_ext(): the entries, kept with the class they were made
\* from.
GetSourceExt ==
    /\ ext' = Some([entries |-> get_source_ext(cls), c |-> cls])
    /\ UNCHANGED <<cls, loop, attempts, out, methodVars, fieldVars, machineVars>>

SourceNext == SourceProcess \/ GetSource \/ GetSourceExt

SpecSource == SourceInit /\ [][SourceNext]_vars

(***************************************************************************)
(* Properties of DvClass.get_source.                                       *)
(***************************************************************************)

EndsWith(s, suffix) ==
    Len(suffix) <= Len(s) /\ SubSeq(s, Len(s) - Len(suffix) + 1, Len(s)) = suffix

\* The index of the first line break of a text.
FirstBreak(s) == CHOOSE i \in DOMAIN s : s[i] = "\n" /\ \A j \in 1..(i - 1) : s[j] # "\n"

\* L<pkg>/<Name>; as pkg.Name
Dotted(descriptor) ==
    [i \in 1..(Len(descriptor) - 2) |->
        IF descriptor[i + 1] = "/" THEN "." ELSE descriptor[i + 1]]

\* C9: get_source starts with the line `package <dotted>;` exactly when the
\* class is not inner and has a package; the prototype line carries
\* ` extends <Super>` exactly when there is a superclass other than
\* Ljava/lang/Object;, and ` implements I1, I2, ...` in declaration order
\* exactly when there are interfaces; that line ends in `{` and precedes the
\* fields and the methods, and a line `}` closes the text after them.
C9_ClassFrame ==
    (cls # Off /\ out # Off /\ ~IsNone(out)) =>
        LET text == Get(out).text
            c == Get(out).c
            pkgCond == ~c.inner /\ c.package # <<>>
            pkgLine == <<"p", "a", "c", "k", "a", "g", "e", " ">> \o c.package \o <<";", "\n">>
            rest == IF pkgCond THEN SubSeq(text, Len(pkgLine) + 1, Len(text)) ELSE text
            nl == FirstBreak(rest)
            header == SubSeq(rest, 1, nl)
            body == SubSeq(rest, nl + 1, Len(rest))
            extCond == ~IsNone(c.superclass) /\ Get(c.superclass) # <<"L", "j", "a", "v", "a", "/", "l", "a", "n", "g", "/", "O", "b", "j", "e", "c", "t", ";">>
            extClause == <<" ", "e", "x", "t", "e", "n", "d", "s", " ">> \o Dotted(Get(c.superclass))
            implCond == c.interfaces # <<>>
            implClause ==
                <<" ", "i", "m", "p", "l", "e", "m", "e", "n", "t", "s", " ">>
                \o JoinWith(<<",", " ">>, [i \in DOMAIN c.interfaces |-> Dotted(c.interfaces[i])])
            fieldsText == Join([i \in DOMAIN c.fields |-> Join(FieldSource(c.fields[i]))])
            methodsText == Join(MethodParts(c))
        IN /\ IsPrefix(<<"p", "a", "c", "k", "a", "g", "e", " ">>, text) <=> pkgCond
           /\ pkgCond => IsPrefix(pkgLine, text)
           /\ IsPrefix(c.prototype, header)
           /\ Contains(header, <<" ", "e", "x", "t", "e", "n", "d", "s", " ">>) <=> extCond
           /\ extCond => IsPrefix(c.prototype \o extClause, header)
           /\ Contains(header, <<" ", "i", "m", "p", "l", "e", "m", "e", "n", "t", "s", " ">>) <=> implCond
           /\ implCond => EndsWith(header, implClause \o <<" ", "{", "\n">>)
           /\ (extCond /\ implCond) =>
                 header = c.prototype \o extClause \o implClause \o <<" ", "{", "\n">>
           /\ EndsWith(header, <<" ", "{", "\n">>)
           /\ body = fieldsText \o methodsText \o <<"}", "\n">>

\* The text of a class in a package, with a superclass and two interfaces.
C9_Witness ==
    /\ cls # Off
    /\ out # Off
    /\ ~IsNone(out)
    /\ Get(out).c.package = <<"a", ".", "b">>
    /\ IsPrefix(<<"p", "a", "c", "k", "a", "g", "e", " ", "a", ".", "b", ";", "\n", "p", "u", "b", "l", "i", "c", " ", "f", "i", "n", "a", "l", " ", "c", "l", "a", "s", "s", " ", "C", " ", "e", "x", "t", "e", "n", "d", "s", " ", "a", ".", "S", " ", "i", "m", "p", "l", "e", "m", "e", "n", "t", "s", " ", "a", ".", "I", ",", " ", "J", " ", "{", "\n">>,
                Get(out).text)


(***************************************************************************)
(* DvMachine                                                               *)
(***************************************************************************)

\* The order of characters in class names, as Python compares them.
CharRank(ch) ==
    CASE ch = "/" -> 1 [] ch = ";" -> 2 [] ch = "A" -> 3 [] ch = "B" -> 4 [] ch = "C" -> 5
      [] ch = "D" -> 6 [] ch = "L" -> 7 [] ch = "a" -> 8 [] ch = "b" -> 9 [] OTHER -> 10

\* a < b on str
RECURSIVE StrLess(_, _)
StrLess(a, b) ==
    IF b = <<>> THEN FALSE
    ELSE IF a = <<>> THEN TRUE
    ELSE IF Head(a) = Head(b) THEN StrLess(Tail(a), Tail(b))
    ELSE CharRank(Head(a)) < CharRank(Head(b))

\* The names of self.classes.items(), in the order of the dict.
ItemNames(classes) == [i \in DOMAIN classes |-> classes[i].name]

\* The names of sorted(self.classes.items()): names are distinct, so they
\* alone decide the order.
RECURSIVE SortedNames(_)
SortedNames(names) ==
    IF names = {} THEN <<>>
    ELSE LET least == CHOOSE n \in names : \A o \in names \ {n} : StrLess(n, o)
         IN <<least>> \o SortedNames(names \ {least})

\* self.classes[name]
ClassAt(classes, name) == (CHOOSE i \in DOMAIN classes : classes[i].name = name)

\* self.classes[name] = obj
SetClass(classes, name, obj) == [classes EXCEPT ![ClassAt(classes, name)].obj = obj]

\* self.classes[name] = DvClass(klass, self.vma): the entry holds the new
\* object; `wrapped` counts the wrappers assigned to the entry so far, so the
\* pair of name and count tells one stored wrapper object from another.
Assign(classes, name, obj) ==
    [classes EXCEPT ![ClassAt(classes, name)].obj = obj,
                    ![ClassAt(classes, name)].wrapped = @ + 1]

\* DvClass(klass, self.vma): None when the constructor raises, which it does
\* on a class item whose metadata is missing.
NewDvClass(klass) == IF klass.complete THEN Some(DvClass_init(klass)) ELSE None

\* DvClass.get_ast()['methods']: the ASTs of the methods that have one.
DvClass_get_ast(c) ==
    LET have == SelectSeq(c.methods, LAMBDA m : m.isDv /\ ~IsNone(m.ast))
    IN [rawname |-> Strip1(c.thisclass),
        fields |-> [i \in DOMAIN c.fields |-> get_field_ast_expr(c.fields[i])],
        methods |-> [i \in DOMAIN have |-> Get(have[i].ast)]]

\* A DvMachine operation before its first iteration.
NewOp(op, order) ==
    [op |-> op, status |-> "running", order |-> order, k |-> 1, done |-> <<>>,
     shown |-> <<>>, ret |-> <<>>, arg |-> <<>>, result |-> None]

IdleOp == [op |-> "none", status |-> "idle", order |-> <<>>, k |-> 1, done |-> <<>>,
           shown |-> <<>>, ret |-> <<>>, arg |-> <<>>, result |-> None]

\* The order in which an operation visits the classes.
OrderOf(op, classes) ==
    IF op = "process" THEN ItemNames(classes)
    ELSE SortedNames({classes[i].name : i \in DOMAIN classes})

\* What an iteration leaves once `c`, the wrapper of class `name`, has been
\* processed: the wrapper is in self.classes if `store`; get_ast also keeps
\* the AST of the class, process_and_show prints its source.
AfterClass(classes, o, name, c, store) ==
    [classes |-> IF store THEN SetClass(classes, name, c) ELSE classes,
     o |-> CASE o.op = "get_ast" ->
                  [o EXCEPT !.done = Append(@, name),
                            !.ret = Append(@, [name |-> name, ast |-> DvClass_get_ast(c)])]
             [] o.op = "process_and_show" ->
                  [o EXCEPT !.done = Append(@, name), !.shown = Append(@, name)]
             [] OTHER -> [o EXCEPT !.done = Append(@, name)]]

\* The iteration ends in the exception the constructor of DvClass raised.
ClassRaised(classes, o) == [classes |-> classes, o |-> [o EXCEPT !.status = "raised"]]

\* The wrapper an iteration works on: the stored one, or a new DvClass, None
\* when its constructor raises.
WrapperFor(klass) == IF klass.isDv THEN Some(klass) ELSE NewDvClass(klass)

\* A process that assigns its wrapper to the entry on every call.
WithWrapper_always(classes, name, w) == Assign(classes, name, w)

\* The dict once the loop of DvMachine.process has its wrapper `w` of class
\* `name`: a new wrapper is assigned to the entry, a stored one stays.
WithWrapper(classes, name, w) ==
    IF classes[ClassAt(classes, name)].obj.isDv THEN classes ELSE Assign(classes, name, w)

\* The body of the loop of DvMachine.process for one class:
\* dvclass = self.classes[name] = DvClass(klass, self.vma); dvclass.process()
ProcessBody(classes, o, name) ==
    IF IsNone(WrapperFor(classes[ClassAt(classes, name)].obj))
    THEN ClassRaised(classes, o)
    ELSE AfterClass(WithWrapper(classes, name,
                                Get(WrapperFor(classes[ClassAt(classes, name)].obj))),
                    o, name,
                    DvClass_process(Get(WrapperFor(classes[ClassAt(classes, name)].obj)),
                                    FALSE).c,
                    TRUE)

\* The body of the loop of process_and_show (doAST false) and of get_ast
\* (doAST true) for one class: a class that is not wrapped yet is wrapped in a
\* local, and self.classes is not written; a wrapped one is processed in place.
SortedBody(classes, o, name, doAST) ==
    IF IsNone(WrapperFor(classes[ClassAt(classes, name)].obj))
    THEN ClassRaised(classes, o)
    ELSE AfterClass(classes, o, name,
                    DvClass_process(Get(WrapperFor(classes[ClassAt(classes, name)].obj)),
                                    doAST).c,
                    classes[ClassAt(classes, name)].obj.isDv)

\* The loop moves to the next class, unless the body raised.
NextClass(r) ==
    [classes |-> r.classes,
     o |-> IF r.o.status = "raised" THEN r.o ELSE [r.o EXCEPT !.k = @ + 1]]

\* One iteration of the operation's loop, or its return after the last class.
MachineStep(classes, o) ==
    IF o.k > Len(o.order)
    THEN [classes |-> classes, o |-> [o EXCEPT !.status = "returned"]]
    ELSE NextClass(IF o.op = "process" THEN ProcessBody(classes, o, o.order[o.k])
                   ELSE SortedBody(classes, o, o.order[o.k], o.op = "get_ast"))

\* A get_class that looks for a class of exactly that name before it falls
\* back on the partial match.
FirstMatch_exact(classes, class_name, i) ==
    IF \E j \in DOMAIN classes : classes[j].name = class_name
    THEN CHOOSE j \in DOMAIN classes : classes[j].name = class_name
    ELSE IF \E j \in DOMAIN classes : Contains(classes[j].name, class_name)
    THEN CHOOSE j \in DOMAIN classes :
            /\ Contains(classes[j].name, class_name)
            /\ \A h \in 1..(j - 1) : ~Contains(classes[h].name, class_name)
    ELSE 0

\* for name, klass in self.classes.items(): if class_name in name: ...
\* The position of the entry at which the loop from entry i on stops, 0 when
\* it runs to the end.
RECURSIVE FirstMatch(_, _, _)
FirstMatch(classes, class_name, i) ==
    IF i > Len(classes) THEN 0
    ELSE IF Contains(classes[i].name, class_name) THEN i
    ELSE FirstMatch(classes, class_name, i + 1)

\* What get_class leaves: the dict, how the call ended and what it returned.
\* A returned wrapper is given as its entry of the dict.
Returned(classes, result) == [classes |-> classes, status |-> "returned", result |-> result]

\* The body of the loop of get_class at the matching entry i, whose class is
\* wrapped as `w` if it is not yet, None when the constructor raises.
GetClassAt(classes, i, w) ==
    IF classes[i].obj.isDv THEN Returned(classes, Some(classes[i]))
    ELSE IF IsNone(w) THEN [classes |-> classes, status |-> "raised", result |-> None]
    ELSE Returned(Assign(classes, classes[i].name, Get(w)),
                  Some(Assign(classes, classes[i].name, Get(w))[i]))

\* DvMachine.get_class(class_name); falling off the loop returns None.
GetClassFrom(classes, i) ==
    IF i = 0 THEN Returned(classes, None)
    ELSE GetClassAt(classes, i, WrapperFor(classes[i].obj))

get_class(classes, class_name) == GetClassFrom(classes, FirstMatch(classes, class_name, 1))

(***************************************************************************)
(* A machine over a few classes, its operations one class at a time.       *)
(***************************************************************************)

MaxClasses == 2

\* A class item whose metadata is missing: wrapping it raises.
IncompleteClass(name) ==
    [ClassDefItem(name, 1, None, <<>>, <<>>, <<>>) EXCEPT !.complete = FALSE]

ClassPool ==
    {ClassDefItem(<<"L", "a", "/", "B", ";">>, 1, None, <<>>, <<>>, <<ClassMethod(<<"f">>, TRUE, NoFail)>>),
     ClassDefItem(<<"L", "a", "/", "A", ";">>, 1, None, <<>>, <<>>, <<ClassMethod(<<"k">>, TRUE, "construct")>>),
     ClassDefItem(<<"L", "C", ";">>, 1, None, <<>>, <<>>, <<>>),
     ClassDefItem(<<"L", "L", "C", ";">>, 1, None, <<>>, <<>>, <<>>),
     IncompleteClass(<<"L", "B", ";">>),
     IncompleteClass(<<"L", "a", "/", "D", ";">>)}

\* The dicts DvMachine.__init__ builds: the classes of the container under
\* their names, in the order the container lists them.
MachineInputs ==
    {q \in SeqsUpTo(ClassPool, MaxClasses) :
        \A i, j \in DOMAIN q : i # j => q[i].name # q[j].name}

MachineInit ==
    /\ \E q \in MachineInputs :
          machine = [classes |-> [i \in DOMAIN q |-> [name |-> q[i].name, obj |-> q[i], wrapped |-> 0]]]
    /\ mop = IdleOp
    /\ method = Off
    /\ frame = Off
    /\ calls = Off
    /\ fld = Off
    /\ fres = Off
    /\ cls = Off
    /\ loop = Off
    /\ attempts = Off
    /\ out = Off
    /\ ext = Off

\* A caller invokes process, process_and_show or get_ast.
MachineCall ==
    /\ mop.status # "running"
    /\ \E op \in {"process", "process_and_show", "get_ast"} :
          mop' = NewOp(op, OrderOf(op, machine.classes))
    /\ UNCHANGED <<machine, methodVars, fieldVars, classVars>>

\* The operation handles its next class, or returns.
MachineTurn ==
    /\ mop.status = "running"
    /\ LET r == MachineStep(machine.classes, mop)
       IN /\ machine' = [machine EXCEPT !.classes = r.classes]
          /\ mop' = r.o
    /\ UNCHANGED <<methodVars, fieldVars, classVars>>

\* The class names a caller asks get_class for.
ClassQueries ==
    {<<>>, <<"B">>, <<"L", "C", ";">>, <<"a", "/">>, <<"D">>, <<"Z">>}

\* A caller invokes get_class(class_name), which runs to its return.
GetClassCall ==
    /\ mop.status # "running"
    /\ \E class_name \in ClassQueries :
          LET r == get_class(machine.classes, class_name)
          IN /\ machine' = [machine EXCEPT !.classes = r.classes]
             /\ mop' = [NewOp("get_class", ItemNames(machine.classes))
                           EXCEPT !.status = r.status, !.arg = class_name,
                                  !.result = r.result]
    /\ UNCHANGED <<methodVars, fieldVars, classVars>>

MachineNext == MachineCall \/ MachineTurn \/ GetClassCall

SpecMachine == MachineInit /\ [][MachineNext]_vars

\* C5: when wrapping a class fails inside process, process_and_show or get_ast,
\* only that class is skipped: the operation returns normally and has
\* processed every class that can be wrapped.
C5_ClassFailureSkipped ==
    (machine # Off /\ mop.status \notin {"idle", "running"} /\ mop.op # "get_class") =>
        /\ mop.status = "returned"
        /\ \A i \in DOMAIN machine.classes :
              (machine.classes[i].obj.isDv \/ machine.classes[i].obj.complete) =>
                 \E d \in DOMAIN mop.done : mop.done[d] = machine.classes[i].name

\* The entries whose name contains the text s.
Matching(classes, s) == {i \in DOMAIN classes : Contains(classes[i].name, s)}

\* A step in which a call get_class(s) returns: with no matching name it
\* returns None and leaves the dict alone; otherwise it returns the entry of
\* the first matching name, which holds the wrapper of that class, and every
\* other entry is as before.
C11_Step ==
    (mop'.op = "get_class" /\ mop'.status = "returned") =>
        LET old == machine.classes
            new == machine'.classes
            hits == Matching(old, mop'.arg)
        IN IF hits = {}
           THEN IsNone(mop'.result) /\ new = old
           ELSE LET first == CHOOSE i \in hits : \A j \in hits : i <= j
                IN /\ ~IsNone(mop'.result)
                   /\ Get(mop'.result) = new[first]
                   /\ new[first].name = old[first].name
                   /\ new[first].obj.isDv
                   /\ new[first].obj.thisclass = old[first].name
                   /\ old[first].obj.isDv => new[first] = old[first]
                   /\ DOMAIN new = DOMAIN old
                   /\ \A j \in DOMAIN old \ {first} : new[j] = old[j]

\* C11: get_class(s) returns the wrapper of the first class, in the order of
\* `classes`, whose name contains s, even when a later name equals s, and
\* wraps that entry only; when no name contains s it returns None and wraps
\* nothing.
C11_GetClassFirstMatch == [][C11_Step]_vars

\* get_class("LC;") on the classes LLC; and LC; has returned the wrapper of
\* LLC; and left LC; as it was.
C11_Witness ==
    /\ machine # Off
    /\ mop.op = "get_class"
    /\ mop.status = "returned"
    /\ mop.arg = <<"L", "C", ";">>
    /\ ItemNames(machine.classes) = <<<<"L", "L", "C", ";">>, <<"L", "C", ";">>>>
    /\ ~IsNone(mop.result)
    /\ Get(mop.result).name = <<"L", "L", "C", ";">>
    /\ machine.classes[1].obj.isDv
    /\ machine.classes[1].wrapped = 1
    /\ ~machine.classes[2].obj.isDv

\* The names of the classes the operation that has ended decompiled: those
\* its loop worked through, or the one get_class matched.
Decompiled(o) ==
    {o.done[d] : d \in DOMAIN o.done}
        \cup (IF o.op = "get_class" /\ ~IsNone(o.result) THEN {Get(o.result).name} ELSE {})

\* C12: once process, process_and_show, get_ast or a matching get_class has
\* completed, the entry of `classes` of every class the operation decompiled
\* holds a DvClass wrapper in place of the original class item.
C12_WrappersStored ==
    (machine # Off /\ mop.status = "returned") =>
        \A name \in Decompiled(mop) :
            machine.classes[ClassAt(machine.classes, name)].obj.isDv

\* No entry has been assigned more than one wrapper.
C14_State ==
    machine # Off => \A i \in DOMAIN machine.classes : machine.classes[i].wrapped <= 1

\* A step keeps the keys and their order; an entry that holds a wrapper holds
\* the same wrapper object afterwards; a get_class that returns hands out the
\* object its entry holds, the one stored before if there was one.
C14_Step ==
    LET old == machine.classes
        new == machine'.classes
    IN /\ ItemNames(new) = ItemNames(old)
       /\ \A i \in DOMAIN old :
             old[i].obj.isDv => new[i].obj.isDv /\ new[i].wrapped = old[i].wrapped
       /\ (mop'.op = "get_class" /\ ~IsNone(mop'.result)) =>
             \E i \in DOMAIN new :
                /\ Get(mop'.result) = new[i]
                /\ old[i].obj.isDv => Get(mop'.result) = old[i]

\* C14: over any sequence of get_class, process, process_and_show and get_ast
\* calls the keys of `classes` never change, an entry that holds a DvClass is
\* never given another object nor a raw class again, get_class and process
\* use the stored wrapper, and so each class is wrapped at most once through
\* these two operations.
C14_WrappedOnce == [](C14_State) /\ [][C14_Step]_vars

\* get_class has returned the stored wrapper of a class that process had
\* wrapped and decompiled before.
C14_Witness ==
    /\ machine # Off
    /\ mop.op = "get_class"
    /\ mop.status = "returned"
    /\ ~IsNone(mop.result)
    /\ \E i \in DOMAIN machine.classes :
          /\ Get(mop.result) = machine.classes[i]
          /\ machine.classes[i].wrapped = 1
          /\ machine.classes[i].obj.isDv
          /\ Len(machine.classes[i].obj.methods) > 0
          /\ machine.classes[i].obj.methods[1].isDv

(***************************************************************************)
(* The construction of a DvMethod given an annotation directory.           *)
(***************************************************************************)

MaxItems == 2
MaxRefs == 2

\* References to annotation sets: offset 0 is no set.
AnnotationRefs ==
    {[annotations_off |-> 0, set |-> <<>>], [annotations_off |-> 8, set |-> <<"A">>]}

\* adi.get_parameter_annotations(): items about this method (index 1) and
\* about another one.
ParameterAnnotationItems ==
    {[method_idx |-> m, list |-> l] : m \in {1, 2}, l \in SeqsUpTo(AnnotationRefs, MaxRefs)}

\* adi.get_method_annotations()
MethodAnnotationLists ==
    {<<>>,
     <<[method_idx |-> 1, annotations_off |-> 8, set |-> <<"A", "B">>],
       [method_idx |-> 2, annotations_off |-> 16, set |-> <<"C">>],
       [method_idx |-> 1, annotations_off |-> 0, set |-> <<>>]>>}

AnnotationDirectories ==
    {[method_annotations |-> ma, parameter_annotations |-> pa] :
        ma \in MethodAnnotationLists, pa \in SeqsUpTo(ParameterAnnotationItems, MaxItems)}

\* Methods without code, of up to MaxParams parameters, with and without an
\* annotation directory.
AnnotatedInputs ==
    {[RawMethod(<<"f">>, FALSE, pt, None, FALSE, NoFail, {}) EXCEPT !.adi = a] :
        pt \in SeqsUpTo({<<"I">>}, MaxParams),
        a \in {None} \cup {Some(d) : d \in AnnotationDirectories}}

AnnotatedInit ==
    /\ method \in AnnotatedInputs
    /\ frame = IdleFrame
    /\ calls = <<>>
    /\ fld = Off
    /\ fres = Off
    /\ cls = Off
    /\ loop = Off
    /\ attempts = Off
    /\ out = Off
    /\ ext = Off
    /\ machine = Off
    /\ mop = Off

\* DvMethod(methanalysis, adi)
Construct ==
    /\ ~method.isDv
    /\ method' = DvMethod_init(method)
    /\ UNCHANGED <<frame, calls, fieldVars, classVars, machineVars>>

AnnotatedNext == Construct

SpecAnnotated == AnnotatedInit /\ [][AnnotatedNext]_vars

\* The list extracted for the method from its directory: the references of
\* the items about the method, in order.
Extracted(m) ==
    get_parameter_annotations(SelectSeq(Get(m.raw.adi).parameter_annotations,
                                        LAMBDA x : x.method_idx = m.raw.method_idx))

\* The directory has parameter annotation items about the method.
HasItems(m) ==
    /\ ~IsNone(m.raw.adi)
    /\ \E i \in DOMAIN Get(m.raw.adi).parameter_annotations :
          Get(m.raw.adi).parameter_annotations[i].method_idx = m.raw.method_idx

\* C13: after construction param_annotations has one entry for every declared
\* parameter type: all empty without a directory or without items for the
\* method; the extracted list when its length fits; an empty list followed by
\* the extracted entries when it is short by exactly one; all empty on any
\* other mismatch.
C13_ParamAnnotationsLength ==
    (method # Off /\ method.isDv) =>
        LET n == Len(method.params_type)
            pa == method.param_annotations
        IN /\ Len(pa) = n
           /\ ~HasItems(method) => \A i \in 1..n : pa[i] = <<>>
           /\ HasItems(method) =>
                 LET e == Extracted(method)
                 IN /\ Len(e) = n => pa = e
                    /\ Len(e) = n - 1 =>
                          pa[1] = <<>> /\ \A i \in 1..Len(e) : pa[i + 1] = e[i]
                    /\ Len(e) \notin {n, n - 1} => \A i \in 1..n : pa[i] = <<>>

\* A method of two parameters whose directory holds one annotated parameter
\* has been constructed: the annotation is on the second parameter.
C13_Witness ==
    /\ method # Off
    /\ method.isDv
    /\ Len(method.params_type) = 2
    /\ HasItems(method)
    /\ Extracted(method) = <<<<<<"A", <<>>>>>>>>
    /\ method.param_annotations = <<<<>>, <<<<"A", <<>>>>>>>>

\* C16: for a class descriptor L<pkg>/<Name>; or L<Name>; the wrapper's name
\* is <Name>, without the leading L and the trailing `;`, and its package is
\* <pkg> with `.` for `/`, empty for the default package: the descriptor
\* between L and `;`, dotted, is the package, a dot and the name, or the name
\* alone, and the name holds no separator.
C16_NameAndPackage ==
    (cls # Off /\ cls.isDv) =>
        /\ ~Contains(cls.name, <<"/">>)
        /\ ~Contains(cls.name, <<".">>)
        /\ ~Contains(cls.package, <<"/">>)
        /\ ReplaceSlash(Strip1(cls.thisclass)) =
              (IF cls.package = <<>> THEN cls.name ELSE cls.package \o <<".">> \o cls.name)

\* The text of the entries of the given tags: their tokens' texts, in order.
EntriesText(entries, tags) ==
    LET chosen == SelectSeq(entries, LAMBDA e : e.tag \in tags)
    IN Join([i \in DOMAIN chosen |->
               Join([k \in DOMAIN chosen[i].text |-> chosen[i].text[k].text])])

\* C15: for every class, interfaces included, the texts of the tokens
\* get_source_ext gives for the package line, the prototype, the fields and
\* the closing brace are the text get_source gives for those parts, which
\* surround the text of the methods; for an interface neither rendering
\* holds the keyword `class` or the modifier `abstract`.
C15_ExtMatchesSource ==
    (cls # Off /\ out # Off /\ ~IsNone(out) /\ ~IsNone(ext) /\ Get(out).c = Get(ext).c) =>
        LET text == Get(out).text
            c == Get(out).c
            front == EntriesText(Get(ext).entries, {"PACKAGE", "PROTOTYPE", "FIELD"})
            back == EntriesText(Get(ext).entries, {"CLASS_END"})
            isInterface == \E i \in DOMAIN c.access : c.access[i] = <<"i", "n", "t", "e", "r", "f", "a", "c", "e">>
        IN /\ text = front \o Join(MethodParts(c)) \o back
           /\ isInterface =>
                 /\ ~Contains(text, <<"c", "l", "a", "s", "s", " ">>)
                 /\ ~Contains(front, <<"c", "l", "a", "s", "s", " ">>)
                 /\ ~Contains(text, <<"a", "b", "s", "t", "r", "a", "c", "t">>)
                 /\ ~Contains(front, <<"a", "b", "s", "t", "r", "a", "c", "t">>)

====
